---- MODULE Spec2Model ----
(***************************************************************************)
(* Catbot: the conversational agent (src/agent.py), its guild-chat command *)
(* handler (src/discordbot.py) and the mention relay (src/twitterbot.py).  *)
(*                                                                         *)
(* The two surfaces are separate processes, so the module holds one        *)
(* specification per process or function under study:                      *)
(*   SpecSplit  TwitterBot._split_into_tweets, a pure function             *)
(*   SpecQuery  CatbotAgent.query_database, one call per step              *)
(*   SpecRelay  TwitterBot.check_mentions driven by run_bot                *)
(*   SpecAgent  CatbotAgent.process_question under the handler c           *)
(*   SpecWindow the session window of process_question on stored histories *)
(*   SpecAge    CatbotAgent.get_cat_age, a pure function                   *)
(*   SpecRestart SpecRelay with the relay process dying and restarting     *)
(* Each specification leaves the variables of the others at their initial  *)
(* values.                                                                 *)
(***************************************************************************)
EXTENDS Integers, Sequences, FiniteSets, TLC

VARIABLES
    \* ---- _split_into_tweets
    text,           \* the argument text, a sequence of characters
    max_length,     \* the argument max_length
    tweet_parts,    \* the returned list of chunks
    split_pc,       \* "call" before the call, "returned" after it
    \* ---- query_database
    q_calls,        \* number of calls made so far
    q_last,         \* what the last call did (see QueryDatabase)
    open_conns,     \* connections that are open
    db_commits,     \* number of transactions committed
    \* ---- process_question and its consumers
    surface,        \* the process: "guild" (discordbot) or "microblog" (twitterbot)
    now,            \* the wall clock, in minutes
    history,        \* CatbotAgent.history: user -> list of messages
    task,           \* question -> the state of its handler (see IdleTask)
    sent,           \* question -> the messages delivered to the asking user
    \* ---- check_mentions
    last_mention_id,\* TwitterBot.last_mention_id
    cursor_file,    \* the number held by last_processed_mention_id.txt
    platform,       \* the identifiers of the mentions that exist
    relay_pc,       \* "sleep", "batch" (in the for loop), "reply" (in
                    \* process_and_reply), "down" (the process is not running)
    batch,          \* the mentions of mentions.data not yet iterated
    mention,        \* the mention in process_and_reply: id, chunks, chunks
                    \* posted, and the local previous_tweet_id
    fetched,        \* every mention some batch contained
    replied,        \* the mentions all of whose reply chunks were posted
    batch_log,      \* the mentions handled in the last batch and how each ended
    save_failed,    \* a save of the cursor raised during the last batch
    thread,         \* the tweets posted by the process_and_reply in progress
    written,        \* the values this process passed to _save_last_mention_id
    persisted,      \* the last number that was written to the file in full
    \* ---- get_cat_age
    minted_hours_ago,\* hours from the instant minted_at names to the call
    utc_offset,     \* hours the local clock of the process is ahead of UTC
    cat_age,        \* the returned age
    age_pc          \* "call" before the call, "returned" after it

splitVars == <<text, max_length, tweet_parts, split_pc>>
queryVars == <<q_calls, q_last, open_conns, db_commits>>
agentVars == <<surface, now, history, task, sent>>
relayVars == <<last_mention_id, cursor_file, platform, relay_pc, batch, mention,
               fetched, replied, batch_log, save_failed, thread, written,
               persisted>>
ageVars == <<minted_hours_ago, utc_offset, cat_age, age_pc>>
vars == <<splitVars, queryVars, agentVars, relayVars, ageVars>>

\* What each process or function leaves alone: the state of the others.
SplitFrame == UNCHANGED <<queryVars, agentVars, relayVars, ageVars>>
QueryFrame == UNCHANGED <<splitVars, agentVars, relayVars, ageVars>>
AgentFrame == UNCHANGED <<splitVars, queryVars, relayVars, ageVars>>
RelayFrame == UNCHANGED <<splitVars, queryVars, agentVars, ageVars>>
AgeFrame == UNCHANGED <<splitVars, queryVars, agentVars, relayVars>>

(***************************************************************************)
(* Bounds of the model.                                                    *)
(***************************************************************************)
MaxTextLen == 6     \* longest text that is split
MaxBudget == 3      \* largest max_length that is tried
MaxCalls == 4       \* number of query_database calls
MaxTasks == 2       \* number of questions asked in a run
MaxTicks == 1       \* number of clock steps in a run
TickMinutes == 31   \* minutes per clock step
MaxMentions == 3    \* number of mentions that arrive in a run
MaxChunks == 2      \* most reply chunks posted for one mention
MaxDays == 400      \* oldest mint whose age is asked, in days

(***************************************************************************)
(* TwitterBot._split_into_tweets                                           *)
(***************************************************************************)
\* The default of the max_length parameter.
DefaultMaxLength == 280

\* Characters: two letters and one whitespace character.
Letters == {"a", "b"}
Whitespace == {" "}
Alphabet == Letters \cup Whitespace

Texts == UNION {[1..n -> Alphabet] : n \in 0..MaxTextLen}

\* str.split() without argument: the maximal runs of non-whitespace
\* characters, in order; never an empty word.
RECURSIVE SplitWords(_, _, _)
SplitWords(s, i, cur) ==
    IF i > Len(s)
    THEN IF cur = <<>> THEN <<>> ELSE <<cur>>
    ELSE IF s[i] \in Whitespace
         THEN IF cur = <<>>
              THEN SplitWords(s, i + 1, <<>>)
              ELSE <<cur>> \o SplitWords(s, i + 1, <<>>)
         ELSE SplitWords(s, i + 1, Append(cur, s[i]))

str_split(s) == SplitWords(s, 1, <<>>)

\* " ".join(words)
RECURSIVE str_join(_)
str_join(words) ==
    IF words = <<>> THEN <<>>
    ELSE IF Len(words) = 1 THEN words[1]
    ELSE words[1] \o <<" ">> \o str_join(Tail(words))

\* The test of the loop with the separator not counted.
FitsWithoutSeparator(current_part, word, budget) ==
    Len(current_part) + Len(word) <= budget

\* len(current_part) + len(word) + 1 <= max_length
Fits(current_part, word, budget) ==
    Len(current_part) + Len(word) + 1 <= budget

\* "for word in words": the word joins the current part when the part, the
\* word and one separator fit, else the current part is closed (even when it
\* is empty) and the word starts the next one; after the loop a non-empty
\* current part is closed.
RECURSIVE SplitLoop(_, _, _, _)
SplitLoop(words, parts, current_part, budget) ==
    IF words = <<>>
    THEN IF current_part # <<>> THEN Append(parts, current_part) ELSE parts
    ELSE LET word == Head(words) IN
         IF Fits(current_part, word, budget)
         THEN SplitLoop(Tail(words), parts,
                        IF current_part # <<>>
                        THEN current_part \o <<" ">> \o word
                        ELSE word,
                        budget)
         ELSE SplitLoop(Tail(words), Append(parts, current_part), word, budget)

\* The function with the closing "if current_part: parts.append(current_part)"
\* left out: the last chunk is lost.
split_into_tweets_no_flush(s, budget) ==
    IF Len(s) <= budget
    THEN <<s>>
    ELSE LET parts == SplitLoop(str_split(s), <<>>, <<>>, budget)
         IN  SubSeq(parts, 1, Len(parts) - 1)

split_into_tweets(s, budget) ==
    IF Len(s) <= budget
    THEN <<s>>
    ELSE SplitLoop(str_split(s), <<>>, <<>>, budget)

SplitInit ==
    /\ text \in Texts
    /\ max_length \in 1..MaxBudget
    /\ tweet_parts = <<>>
    /\ split_pc = "call"

SplitIntoTweets ==
    /\ split_pc = "call"
    /\ tweet_parts' = split_into_tweets(text, max_length)
    /\ split_pc' = "returned"
    /\ UNCHANGED <<text, max_length>>
    /\ SplitFrame

\* The words of all chunks, in order.
RECURSIVE WordsOfParts(_)
WordsOfParts(parts) ==
    IF parts = <<>> THEN <<>>
    ELSE str_split(Head(parts)) \o WordsOfParts(Tail(parts))

\* The chunks that are not the empty string, in order.
NonEmptyParts(parts) == SelectSeq(parts, LAMBDA p : p # <<>>)

HasWhitespace(s) == \E i \in 1..Len(s) : s[i] \in Whitespace

\* C6 as stated: every chunk returned by _split_into_tweets has at most
\* max_length characters, and no word of the text is divided between chunks.
C6_ChunksWithinBudget ==
    split_pc = "returned" =>
        /\ \A i \in 1..Len(tweet_parts) : Len(tweet_parts[i]) <= max_length
        /\ WordsOfParts(tweet_parts) = str_split(text)

\* C6 amended: every chunk has at most max_length characters or is one whole
\* word of the text that is itself longer than max_length, and no word of
\* the text is divided between chunks (the words of the chunks, in order, are
\* the words of the text).
C6_ChunksWithinBudgetOrOneWord ==
    split_pc = "returned" =>
        /\ \A i \in 1..Len(tweet_parts) :
              \/ Len(tweet_parts[i]) <= max_length
              \/ /\ str_split(tweet_parts[i]) = <<tweet_parts[i]>>
                 /\ \E k \in 1..Len(str_split(text)) :
                       str_split(text)[k] = tweet_parts[i]
        /\ WordsOfParts(tweet_parts) = str_split(text)

\* A text over the budget was split into several chunks, one of them made of
\* several words, all within the budget.
C6_Witness ==
    /\ split_pc = "returned"
    /\ Len(text) > max_length
    /\ Len(tweet_parts) >= 2
    /\ \E i \in 1..Len(tweet_parts) : Len(str_split(tweet_parts[i])) >= 2
    /\ \A i \in 1..Len(tweet_parts) :
          Len(tweet_parts[i]) \in 1..max_length

C20_NoEmptyChunk ==
    (split_pc = "returned" /\ text # <<>>) =>
        /\ tweet_parts # <<>>
        /\ \A k \in 1..Len(tweet_parts) : tweet_parts[k] # <<>>

(***************************************************************************)
(* CatbotAgent.query_database                                              *)
(***************************************************************************)
\* What the statement given as the query does when it is executed:
\*   select         a well-formed SELECT
\*   dml_returning  a data-modifying statement that returns rows
\*   no_result_set  a statement that executes and has no result set
\*                  (cursor.description is None)
\*   malformed      SQL the server rejects
\*   constraint     a statement that violates a constraint
Statements == {"select", "dml_returning", "no_result_set", "malformed",
               "constraint"}
Outcomes == {"ok", "fail"}

\* psycopg2.connect inside get_database_connection: the connection, or the
\* DatabaseError that get_database_connection logs and raises again.
get_database_connection(connect) ==
    IF connect = "ok" THEN "connection" ELSE "DatabaseError"

\* The try block with conn.commit() called right after cursor.execute.
TryBlockCommitsAfterExecute(stmt, commit) ==
    IF stmt \in {"malformed", "constraint"}
    THEN [returned |-> "error_string", committed |-> FALSE]
    ELSE IF commit = "fail"
    THEN [returned |-> "error_string", committed |-> FALSE]
    ELSE IF stmt = "no_result_set"
    THEN [returned |-> "error_string", committed |-> TRUE]
    ELSE [returned |-> "records", committed |-> TRUE]

\* The body of the try block: cursor.execute, the column names read from
\* cursor.description, cursor.fetchall, conn.commit and return results; any
\* exception on the way is caught and turned into the error string.
TryBlock(stmt, commit) ==
    IF stmt \in {"malformed", "constraint"}
    THEN [returned |-> "error_string", committed |-> FALSE]   \* execute raises
    ELSE IF stmt = "no_result_set"
    THEN [returned |-> "error_string", committed |-> FALSE]   \* description is None
    ELSE IF commit = "fail"
    THEN [returned |-> "error_string", committed |-> FALSE]   \* commit raises
    ELSE [returned |-> "records", committed |-> TRUE]

\* "finally: conn.close()": the connections open when the call returns.
ClosedUnlessFailed(conns, conn, returned) ==
    IF returned = "records" THEN conns \ {conn} ELSE conns

Closed(conns, conn, returned) == conns \ {conn}

QueryInit ==
    /\ q_calls = 0
    /\ q_last = [stmt |-> "none", connect |-> "none", returned |-> "none",
                 committed |-> FALSE, conn |-> 0]
    /\ open_conns = {}
    /\ db_commits = 0

\* One call of query_database(query).
QueryDatabase(stmt, connect, commit) ==
    /\ q_calls < MaxCalls
    /\ q_calls' = q_calls + 1
    /\ IF get_database_connection(connect) = "DatabaseError"
       THEN \* raised before the try block is entered
            /\ q_last' = [stmt |-> stmt, connect |-> connect,
                          returned |-> "raised", committed |-> FALSE,
                          conn |-> 0]
            /\ UNCHANGED <<open_conns, db_commits>>
       ELSE LET conn == q_calls + 1
                res == TryBlock(stmt, commit)
            IN  /\ q_last' = [stmt |-> stmt, connect |-> connect,
                              returned |-> res.returned,
                              committed |-> res.committed, conn |-> conn]
                /\ db_commits' = IF res.committed THEN db_commits + 1
                                 ELSE db_commits
                \* finally: conn.close()
                /\ open_conns' = Closed(open_conns \cup {conn}, conn,
                                        res.returned)
    /\ QueryFrame

\* C9: query_database never raises to its caller: on any failure while
\* serving a query, connection failure included, it returns an error string,
\* and on success it returns the list of records.
C9_QueryNeverRaises ==
    q_last.stmt # "none" =>
        /\ q_last.returned \in {"records", "error_string"}
        /\ q_last.returned = "records" =>
              (q_last.connect = "ok" /\ q_last.stmt \in {"select", "dml_returning"})

\* C16: every query_database call that gets a connection gets one of its own,
\* and the connection is closed when the call returns, whether the query
\* succeeded or failed: no connection stays open after any sequence of calls.
C16_NoConnectionLeftOpen ==
    /\ open_conns = {}
    /\ q_last.connect = "ok" => q_last.conn = q_calls

\* A call whose query failed after the connection was acquired has returned,
\* after an earlier call.
C16_Witness ==
    /\ q_calls >= 2
    /\ q_last.connect = "ok"
    /\ q_last.returned = "error_string"

\* The statements that produce a result set.
ReturnsRows(stmt) == stmt \in {"select", "dml_returning"}

\* C21: query_database commits only when the statement produced a result set
\* that was fetched without error: a statement that has no result set or
\* that fails is not committed, its connection is closed and an error string
\* is returned; every call that returns rows, a data-modifying statement with
\* rows included, has committed.
C21_CommitsOnlyFetchedResultSets ==
    [][q_calls' # q_calls =>
          /\ db_commits' = (IF q_last'.committed THEN db_commits + 1
                            ELSE db_commits)
          /\ q_last'.committed =>
                (ReturnsRows(q_last'.stmt) /\ q_last'.returned = "records")
          /\ (q_last'.connect = "ok" /\ ~ReturnsRows(q_last'.stmt)) =>
                /\ ~q_last'.committed
                /\ q_last'.returned = "error_string"
                /\ q_last'.conn \notin open_conns'
          /\ q_last'.returned = "records" => q_last'.committed]_vars

\* A data-modifying statement that returns rows was committed, after a call
\* that committed nothing.
C21_Witness ==
    /\ q_last.stmt = "dml_returning"
    /\ q_last.committed
    /\ q_last.returned = "records"
    /\ db_commits >= 1
    /\ db_commits < q_calls

(***************************************************************************)
(* CatbotAgent.get_cat_age (src/main.py holds the same function)           *)
(***************************************************************************)
HoursPerDay == 24
DaysPerMonth == 30
DaysPerYear == 365

\* minted_at ends in the literal "+00:00": it names an instant in UTC, and
\* strptime returns it as a naive datetime. datetime.now() is the naive local
\* time of the process, which is utc_offset hours ahead of UTC.
UtcOffsets == {0 - 1, 0, 1}

NoAge == [format |-> "none", years |-> 0, months |-> 0, days |-> 0]

\* "tdelta = datetime.now() - datetime.strptime(minted_at, ...)", in hours,
\* and tdelta.days, which rounds towards minus infinity.
tdelta_days(hours_ago, offset) == (hours_ago + offset) \div HoursPerDay

\* The f-string that is chosen and the numbers it interpolates; the suffix
\* " (born <date>)" is the same on every branch and is left out.
AgeString(fmt, years, months, days) ==
    [format |-> fmt, years |-> years, months |-> months, days |-> days]

get_cat_age(hours_ago, offset) ==
    LET tdays == tdelta_days(hours_ago, offset)
        years == tdays \div DaysPerYear
        remaining_days == tdays % DaysPerYear
        months == remaining_days \div DaysPerMonth
        days == remaining_days % DaysPerMonth
    IN  IF tdays < 1 THEN AgeString("just minted today!", 0, 0, 0)
        ELSE IF tdays < DaysPerMonth
        THEN AgeString("{} days old!", 0, 0, tdays)
        ELSE IF tdays < DaysPerYear
        THEN AgeString("{} months and {} days old!", 0, months, days)
        ELSE AgeString("{} years, {} months and {} days old!",
                       years, months, days)

AgeInit ==
    /\ minted_hours_ago \in 0..(MaxDays * HoursPerDay + HoursPerDay - 1)
    /\ utc_offset \in UtcOffsets
    /\ cat_age = NoAge
    /\ age_pc = "call"

\* The engine calls the tool with a well-formed timestamp.
GetCatAge ==
    /\ age_pc = "call"
    /\ cat_age' = get_cat_age(minted_hours_ago, utc_offset)
    /\ age_pc' = "returned"
    /\ UNCHANGED <<minted_hours_ago, utc_offset>>
    /\ AgeFrame

\* C13: with d the whole days elapsed since the timestamp, get_cat_age
\* reports "just minted today" when d < 1, "d days old" when d < 30,
\* "M months and D days old" with M = d div 30 and D = d mod 30 when d < 365,
\* and otherwise "Y years, M months and D days old" with Y = d div 365,
\* M = (d mod 365) div 30 and D = (d mod 365) mod 30.
C13_AgeByElapsedWholeDays ==
    age_pc = "returned" =>
        LET d == minted_hours_ago \div 24 IN
        /\ d < 1 => cat_age.format = "just minted today!"
        /\ (1 <= d /\ d < 30) =>
              /\ cat_age.format = "{} days old!"
              /\ cat_age.days = d
        /\ (30 <= d /\ d < 365) =>
              /\ cat_age.format = "{} months and {} days old!"
              /\ cat_age.months = d \div 30
              /\ cat_age.days = d % 30
        /\ 365 <= d =>
              /\ cat_age.format = "{} years, {} months and {} days old!"
              /\ cat_age.years = d \div 365
              /\ cat_age.months = (d % 365) \div 30
              /\ cat_age.days = (d % 365) % 30

(***************************************************************************)
(* CatbotAgent.process_question, consumed by the command handler c         *)
(* (guild chat) or by TwitterBot.process_and_reply (microblog).            *)
(*                                                                         *)
(* Each action runs a handler from one suspension point (await) to the     *)
(* next, which is how the event loop of the process interleaves handlers.  *)
(***************************************************************************)
Users == {"u1", "u2"}
Tasks == 1..MaxTasks
Surfaces == {"guild", "microblog"}

session_duration_minutes == 30

\* The text the generator yields when the engine call fails, and the text the
\* handler c sends when process_question raises: the same string.
FALLBACK_MSG == "Uh-oh, our stupid dog ate the answer. Please try again."
PROCESSING_ERROR_MSG == "Uh-oh, our stupid dog ate the answer. Please try again."
EMPTY_QUESTION_MSG == "I'm a bot and a cat and a catbot. Ask me anything!"

\* Message parts. Request parts (user prompt, tool return) carry a timestamp;
\* response parts (text, tool call) have no timestamp attribute.
UserPromptPart(q, t) == [type |-> "user-prompt", q |-> q, timestamp |-> t]
ToolReturnPart(q, t) == [type |-> "tool-return", q |-> q, timestamp |-> t]
TextPart(q, n) == [type |-> "text", q |-> q, n |-> n]
ToolCallPart(q) == [type |-> "tool-call", q |-> q]
Message(parts) == [parts |-> parts]

\* What agent.run can produce for question q asked at t0 and answered at t1:
\* a plain answer, or an answer around one tool call.
Shapes == {"text", "tool"}
NewMessages(shape, q, t0, t1) ==
    IF shape = "text"
    THEN << Message(<<UserPromptPart(q, t0)>>),
            Message(<<TextPart(q, 1)>>) >>
    ELSE << Message(<<UserPromptPart(q, t0)>>),
            Message(<<TextPart(q, 1), ToolCallPart(q)>>),
            Message(<<ToolReturnPart(q, t1)>>),
            Message(<<TextPart(q, 2)>>) >>

\* hasattr(part, "timestamp") and now - part.timestamp > timedelta(minutes=30)
PartExpired(part, t) ==
    /\ "timestamp" \in DOMAIN part
    /\ t - part.timestamp > session_duration_minutes

MsgExpired(msg, t) == \E i \in 1..Len(msg.parts) : PartExpired(msg.parts[i], t)

\* A cutoff at the first message that has no expired part.
CutoffFirstFresh(h, t) ==
    IF \E i \in 1..Len(h) : ~MsgExpired(h[i], t)
    THEN (CHOOSE i \in 1..Len(h) :
              /\ ~MsgExpired(h[i], t)
              /\ \A j \in 1..(i - 1) : MsgExpired(h[j], t)) - 1
    ELSE Len(h)

\* cutoff = next((i for i, msg in enumerate(h) if any(expired parts)), 0):
\* the 0-based index of the first message that has an expired part, else 0.
Cutoff(h, t) ==
    IF \E i \in 1..Len(h) : MsgExpired(h[i], t)
    THEN (CHOOSE i \in 1..Len(h) :
              /\ MsgExpired(h[i], t)
              /\ \A j \in 1..(i - 1) : ~MsgExpired(h[j], t)) - 1
    ELSE 0

\* message_history = self.history[asked_by][cutoff:]
EffectiveHistory(h, t) == SubSeq(h, Cutoff(h, t) + 1, Len(h))

\* The contents of the text parts of the messages, in order.
RECURSIVE TextsOfParts(_)
TextsOfParts(parts) ==
    IF parts = <<>> THEN <<>>
    ELSE (IF Head(parts).type = "text" THEN <<Head(parts)>> ELSE <<>>)
         \o TextsOfParts(Tail(parts))

RECURSIVE TextsOf(_)
TextsOf(msgs) ==
    IF msgs = <<>> THEN <<>>
    ELSE TextsOfParts(Head(msgs).parts) \o TextsOf(Tail(msgs))

\* res.new_messages() in place of res.all_messages().
new_messages_only(message_history, new_messages) == new_messages

\* res.all_messages(): the history passed to the run, then its new messages.
all_messages(message_history, new_messages) == message_history \o new_messages

IdleTask ==
    [pc |-> "idle",            \* idle, engine, send, send_fallback,
                               \* send_error, send_help, done
     user |-> "none",          \* asked_by
     message_history |-> <<>>, \* the effective history passed to the engine
     read_at |-> 0,            \* the clock when the history was read
     new |-> <<>>,             \* res.new_messages()
     next |-> 0,               \* index of the reply being sent
     outcome |-> "none"]       \* ok, engine_failed, send_failed, empty

AgentInit ==
    /\ surface \in Surfaces
    /\ now = 0
    /\ history = [u \in Users |-> <<>>]
    /\ task = [t \in Tasks |-> IdleTask]
    /\ sent = [t \in Tasks |-> <<>>]

InFlight == {t \in Tasks : task[t].pc \notin {"idle", "done"}}

\* A handler that is started as its own task, whatever else is in flight.
StartsAsOwnTask(sf) == TRUE

\* When the handling of a new question may start. The guild-chat library
\* starts the handler of each command as its own task; check_mentions awaits
\* process_and_reply for one mention before it takes the next.
MayStart(sf) == sf = "guild" \/ InFlight = {}

\* The generator is resumed after its last yield, or has nothing to yield:
\* the loop over res.new_messages() ends and the history is stored.
StoreHistory(t, new) ==
    history' = [history EXCEPT ![task[t].user] =
                   all_messages(task[t].message_history, new)]

\* The handler of question t has returned or raised: its locals are gone.
Finished(t, outcome) ==
    [IdleTask EXCEPT !.pc = "done", !.user = task[t].user, !.outcome = outcome]

\* c(ctx, question) up to its first await / process_and_reply up to the
\* engine call: the cutoff is computed and the engine call is issued.
StartQuestion(t, u, empty) ==
    /\ task[t].pc = "idle"
    /\ \A t2 \in Tasks : t2 < t => task[t2].pc # "idle"
    /\ MayStart(surface)
    /\ IF empty /\ surface = "guild"
       THEN task' = [task EXCEPT ![t] =
                [@ EXCEPT !.pc = "send_help", !.user = u, !.outcome = "empty"]]
       ELSE task' = [task EXCEPT ![t] =
                [@ EXCEPT !.pc = "engine", !.user = u, !.read_at = now,
                          !.message_history = EffectiveHistory(history[u], now)]]
    /\ UNCHANGED <<surface, now, history, sent>>
    /\ AgentFrame

\* await ctx.send("I'm a bot ...") completes; the handler returns.
HelpSent(t) ==
    /\ task[t].pc = "send_help"
    /\ task' = [task EXCEPT ![t] = Finished(t, "empty")]
    /\ sent' = [sent EXCEPT ![t] = Append(@, EMPTY_QUESTION_MSG)]
    /\ UNCHANGED <<surface, now, history>>
    /\ AgentFrame

\* agent.run returns and the history is stored before anything is yielded.
EngineReturnsStoresFirst(t, shape) ==
    /\ task[t].pc = "engine"
    /\ LET new == NewMessages(shape, t, task[t].read_at, now) IN
       /\ task' = [task EXCEPT ![t] =
               IF TextsOf(new) # <<>>
               THEN [@ EXCEPT !.pc = "send", !.new = new, !.next = 1]
               ELSE Finished(t, "ok")]
       /\ StoreHistory(t, new)
    /\ UNCHANGED <<surface, now, sent>>
    /\ AgentFrame

\* agent.run returns: the generator yields the first text part, or, when
\* there is none, stores the history and ends.
EngineReturns(t, shape) ==
    /\ task[t].pc = "engine"
    /\ LET new == NewMessages(shape, t, task[t].read_at, now) IN
       IF TextsOf(new) # <<>>
       THEN /\ task' = [task EXCEPT ![t] =
                   [@ EXCEPT !.pc = "send", !.new = new, !.next = 1]]
            /\ UNCHANGED history
       ELSE /\ task' = [task EXCEPT ![t] = Finished(t, "ok")]
            /\ StoreHistory(t, new)
    /\ UNCHANGED <<surface, now, sent>>
    /\ AgentFrame

\* The failure path with the question recorded in the history before the
\* fallback is yielded.
EngineFailsStoresQuestion(t) ==
    /\ task[t].pc = "engine"
    /\ task' = [task EXCEPT ![t] =
            [@ EXCEPT !.pc = "send_fallback", !.outcome = "engine_failed"]]
    /\ history' = [history EXCEPT ![task[t].user] =
            Append(task[t].message_history,
                   Message(<<UserPromptPart(t, task[t].read_at)>>))]
    /\ UNCHANGED <<surface, now, sent>>
    /\ AgentFrame

\* agent.run raises: the generator logs and yields the fallback text.
EngineFails(t) ==
    /\ task[t].pc = "engine"
    /\ task' = [task EXCEPT ![t] =
            [@ EXCEPT !.pc = "send_fallback", !.outcome = "engine_failed"]]
    /\ UNCHANGED <<surface, now, history, sent>>
    /\ AgentFrame

\* The consumer delivered the yielded reply (ctx.send / the tweets of the
\* reply) and asks the generator for the next one.
ReplySent(t) ==
    /\ task[t].pc = "send"
    /\ LET replies == TextsOf(task[t].new) IN
       /\ sent' = [sent EXCEPT ![t] = Append(@, replies[task[t].next])]
       /\ IF task[t].next < Len(replies)
          THEN /\ task' = [task EXCEPT ![t] = [@ EXCEPT !.next = @ + 1]]
               /\ UNCHANGED history
          ELSE /\ task' = [task EXCEPT ![t] = Finished(t, "ok")]
               /\ StoreHistory(t, task[t].new)
    /\ UNCHANGED <<surface, now>>
    /\ AgentFrame

\* Delivering the yielded reply raises: the consumer leaves the async for
\* and the generator is never resumed. The handler c sends
\* PROCESSING_ERROR_MSG; process_and_reply lets the exception out.
ReplySendFails(t) ==
    /\ task[t].pc = "send"
    /\ task' = [task EXCEPT ![t] =
            IF surface = "guild"
            THEN [@ EXCEPT !.pc = "send_error", !.outcome = "send_failed"]
            ELSE Finished(t, "send_failed")]
    /\ UNCHANGED <<surface, now, history, sent>>
    /\ AgentFrame

\* The consumer delivered the fallback text and resumes the generator, which
\* raises the exception of the engine call again: c catches it and sends
\* PROCESSING_ERROR_MSG, process_and_reply lets it out to check_mentions.
FallbackSent(t) ==
    /\ task[t].pc = "send_fallback"
    /\ sent' = [sent EXCEPT ![t] = Append(@, FALLBACK_MSG)]
    /\ task' = [task EXCEPT ![t] =
            IF surface = "guild"
            THEN [@ EXCEPT !.pc = "send_error"]
            ELSE Finished(t, "engine_failed")]
    /\ UNCHANGED <<surface, now, history>>
    /\ AgentFrame

\* except Exception: await ctx.send(PROCESSING_ERROR_MSG) completes and the
\* handler returns.
ErrorSent(t) ==
    /\ task[t].pc = "send_error"
    /\ sent' = [sent EXCEPT ![t] = Append(@, PROCESSING_ERROR_MSG)]
    /\ task' = [task EXCEPT ![t] = Finished(t, task[t].outcome)]
    /\ UNCHANGED <<surface, now, history>>
    /\ AgentFrame

\* Time passes.
Tick ==
    /\ now < MaxTicks * TickMinutes
    /\ now' = now + TickMinutes
    /\ UNCHANGED <<surface, history, task, sent>>
    /\ AgentFrame

\* The histories a user can have stored when a question arrives: the
\* exchanges of up to MaxStored earlier questions. The timestamps are readings
\* of the wall clock (datetime.now(tz=timezone.utc)), which can be set back
\* between two readings, so they need not be in order.
Times == {k * TickMinutes : k \in 0..(MaxTicks + 1)}

StoredExchanges(q) ==
    {NewMessages(shape, q, t0, t1) : shape \in Shapes, t0 \in Times, t1 \in Times}

StoredHistories ==
    {<<>>} \cup StoredExchanges(MaxTasks + 1)
           \cup {e1 \o e2 : e1 \in StoredExchanges(MaxTasks + 1),
                             e2 \in StoredExchanges(MaxTasks + 2)}

\* A process that has answered some questions of user u1 before.
WindowInit ==
    /\ surface = "guild"
    /\ now \in Times
    /\ \E h \in StoredHistories :
          history = [u \in Users |-> IF u = "u1" THEN h ELSE <<>>]
    /\ task = [t \in Tasks |-> IdleTask]
    /\ sent = [t \in Tasks |-> <<>>]

\* The positions of the stored messages that have a part older than the
\* session window.
ExpiredAt(h, t) == {i \in 1..Len(h) : MsgExpired(h[i], t)}

C1_NoExpiredTurnInEffectiveHistory ==
    \A t \in Tasks :
        task[t].pc = "engine" =>
            \A i \in 1..Len(task[t].message_history) :
                ~MsgExpired(task[t].message_history[i], task[t].read_at)

\* A step of the handler of question t on the path of a failed engine call.
FailurePathStep(t) ==
    /\ task[t].pc \in {"engine", "send_fallback", "send_error"}
    /\ task'[t] # task[t]
    /\ task'[t].outcome = "engine_failed"

\* The step that reads the history and issues the engine call.
ReadStep(t) == task[t].pc = "idle" /\ task'[t].pc = "engine"

\* C2: when the engine call of process_question fails, the stored history of
\* the asking user and of every other user is what it was before the call:
\* neither reading the history, nor the failure, nor the fallback and error
\* sends that follow change the store.
C2_EngineFailureKeepsHistory ==
    [][\A t \in Tasks :
          (ReadStep(t) \/ FailurePathStep(t)) => history' = history]_vars

\* An engine call failed for a user who has a stored history, and the
\* handler has finished.
C2_Witness ==
    \E t \in Tasks :
        /\ task[t].pc = "done"
        /\ task[t].outcome = "engine_failed"
        /\ history[task[t].user] # <<>>

\* The fallback messages among those delivered for question t.
Fallbacks(t) == SelectSeq(sent[t], LAMBDA m : m = FALLBACK_MSG)

\* C3: when the engine fails while the guild-chat handler c processes a
\* question, the user receives exactly one fallback message for it.
C3_ExactlyOneFallback ==
    \A t \in Tasks :
        (surface = "guild" /\ task[t].pc = "done"
                           /\ task[t].outcome = "engine_failed")
            => Len(Fallbacks(t)) = 1

\* C8 as stated: in either process, the handling of one question runs to
\* completion before the handling of any other question starts.
C8_NoConcurrentQuestions == Cardinality(InFlight) <= 1

\* C8 amended: in the microblog relay process the handling of one mention
\* runs to completion before the handling of the next one starts. (In the
\* guild-chat process the handlers of several commands may be in flight at
\* once, suspended at the engine call or at a send.)
C8_MentionsNotConcurrent ==
    surface = "microblog" => Cardinality(InFlight) <= 1

\* In the relay, a question is being handled after another one was handled
\* to its end.
C8_Witness ==
    /\ surface = "microblog"
    /\ \E t1, t2 \in Tasks :
          /\ task[t1].pc = "done"
          /\ task[t2].pc \in {"engine", "send"}

\* C10: when process_question succeeds and all its replies were consumed, the
\* stored history of the asking user becomes exactly the effective history
\* that was passed to the engine followed by the new messages of the
\* exchange, and no other user's history changes.
C10_HistoryReplacedByAllMessages ==
    [][\A t \in Tasks :
          (task[t].pc = "send" /\ task'[t].pc = "done"
                               /\ task'[t].outcome = "ok")
          => history' = [history EXCEPT ![task[t].user] =
                            task[t].message_history \o task[t].new]]_vars

\* A question succeeded for a user whose effective history was not empty: the
\* store holds the turns of an earlier question followed by those of this one.
C10_Witness ==
    \E t \in Tasks :
        LET h == history[task[t].user] IN
        /\ task[t].pc = "done"
        /\ task[t].outcome = "ok"
        /\ Len(h) >= 4
        /\ h[1].parts[1].q # t
        /\ h[Len(h)].parts[1].q = t

\* The list of messages h holds turns of question q.
HasTurns(h, q) == \E i \in 1..Len(h) : h[i].parts[1].q = q

\* Question t succeeds and stores the history while question t2 of the same
\* user has succeeded and stored it since t read it: the two executions
\* overlapped at the engine call, each having read before either wrote.
SecondWriteStep(t, t2) ==
    /\ t # t2
    /\ task[t].pc = "send"
    /\ task'[t].pc = "done"
    /\ task'[t].outcome = "ok"
    /\ task[t2].pc = "done"
    /\ task[t2].outcome = "ok"
    /\ task[t2].user = task[t].user
    /\ HasTurns(history[task[t].user], t2)
    /\ ~HasTurns(task[t].message_history, t2)

\* C18: when two executions of process_question for the same user overlap at
\* the engine call and both succeed, the stored history of the user holds the
\* turns of both exchanges afterwards.
C18_NoLostUpdate ==
    [][\A t, t2 \in Tasks :
          SecondWriteStep(t, t2) =>
              /\ HasTurns(history'[task[t].user], t)
              /\ HasTurns(history'[task[t].user], t2)]_vars

\* The consumer has delivered the last reply string of question t and
\* resumes the generator.
LastReplyTaken(t) ==
    /\ task[t].pc = "send"
    /\ task[t].next = Len(TextsOf(task[t].new))
    /\ Len(sent'[t]) = Len(sent[t]) + 1

\* C19: the stored history is written only when the consumer has taken every
\* reply string of the exchange; when the consumer stops early because
\* delivering a reply failed, the exchange writes nothing, although the
\* engine call succeeded: the store is left as it was and holds no turn of
\* that question.
C19_HistoryWrittenAfterLastReply ==
    [][/\ history' # history => \E t \in Tasks : LastReplyTaken(t)
       /\ \A t \in Tasks :
             task'[t].outcome = "send_failed" =>
                 /\ task'[t] # task[t] => history' = history
                 /\ ~HasTurns(history'[task'[t].user], t)]_vars

\* The relay posted the first reply of a question, posting the second one
\* failed, and the history of the user holds nothing of the question.
C19_Witness ==
    \E t \in Tasks :
        /\ surface = "microblog"
        /\ task[t].pc = "done"
        /\ task[t].outcome = "send_failed"
        /\ Len(sent[t]) = 1
        /\ ~HasTurns(history[task[t].user], t)

(***************************************************************************)
(* TwitterBot.check_mentions, called by run_bot once a minute              *)
(***************************************************************************)
\* last_mention_id is None (the cursor file is empty): "not
\* self.last_mention_id" holds and since_id filters nothing. Identifiers of
\* mentions are positive.
NoCursor == 0

NoMention == [id |-> 0, total |-> 0, posted |-> 0, previous_tweet_id |-> 0]

\* The identifiers the platform gives to the tweets the bot posts; they are
\* not identifiers of mentions.
ReplyIds == (MaxMentions + 1)..(MaxMentions + MaxChunks + 1)

\* The orders in which the platform can return the mentions of S.
Orders(S) ==
    {o \in [1..Cardinality(S) -> S] :
        \A i, j \in 1..Cardinality(S) : i # j => o[i] # o[j]}

\* get_users_mentions(since_id=last_mention_id): the mentions newer than the
\* cursor.
NewSince(since_id) == {m \in platform : m > since_id}

\* _save_last_mention_id: the file is opened for writing (which empties it)
\* and the number is written; an exception is logged and swallowed.
SaveOutcomes == {"saved", "open_raises", "write_raises"}
SavedFile(mention_id, outcome) ==
    IF outcome = "saved" THEN mention_id
    ELSE IF outcome = "open_raises" THEN cursor_file
    ELSE NoCursor

RelayInit ==
    /\ cursor_file \in {NoCursor, 1}
    /\ last_mention_id = cursor_file
    /\ platform = {}
    /\ relay_pc = "sleep"
    /\ batch = <<>>
    /\ mention = NoMention
    /\ fetched = {}
    /\ replied = {}
    /\ batch_log = <<>>
    /\ save_failed = FALSE
    /\ thread = <<>>
    /\ written = <<>>
    /\ persisted = cursor_file

\* Somebody mentions the bot.
NewMention ==
    /\ Cardinality(platform) < MaxMentions
    /\ platform' = platform \cup {Cardinality(platform) + 1}
    /\ UNCHANGED <<last_mention_id, cursor_file, relay_pc, batch, mention, fetched,
                   replied, batch_log, save_failed, thread, written, persisted>>
    /\ RelayFrame

\* check_mentions up to the for loop: the fetch raises, or finds nothing, or
\* returns the new mentions in some order.
CheckMentions(ok) ==
    /\ relay_pc = "sleep"
    /\ IF ~ok \/ NewSince(last_mention_id) = {}
       THEN UNCHANGED <<relay_pc, batch, fetched, batch_log, save_failed>>
       ELSE /\ \E order \in Orders(NewSince(last_mention_id)) : batch' = order
            /\ relay_pc' = "batch"
            /\ fetched' = fetched \cup NewSince(last_mention_id)
            /\ batch_log' = <<>>
            /\ save_failed' = FALSE
    /\ UNCHANGED <<last_mention_id, cursor_file, platform, mention, replied,
                   thread, written, persisted>>
    /\ RelayFrame

\* The loop takes the next mention and awaits process_and_reply for it.
StartMention(total) ==
    /\ relay_pc = "batch"
    /\ batch # <<>>
    /\ mention' = [id |-> Head(batch), total |-> total, posted |-> 0,
                   previous_tweet_id |-> Head(batch)]
    /\ thread' = <<>>
    /\ relay_pc' = "reply"
    /\ UNCHANGED <<last_mention_id, cursor_file, platform, batch, fetched,
                   replied, batch_log, save_failed, written, persisted>>
    /\ RelayFrame

\* "previous_tweet_id = response.data['id']" after a chunk is posted.
NextPreviousKept(previous_tweet_id, response_id) == previous_tweet_id

NextPrevious(previous_tweet_id, response_id) == response_id

\* create_tweet posts the next chunk of the reply, in reply to
\* previous_tweet_id; the platform gives the new tweet an identifier no other
\* tweet has. The chunks of all the reply strings of the question are
\* counted in one sequence: previous_tweet_id is set once, before the outer
\* loop, and carried through both loops.
PostChunk(response_id) ==
    /\ relay_pc = "reply"
    /\ mention.posted < mention.total
    /\ response_id \notin {thread[k].id : k \in 1..Len(thread)}
    /\ thread' = Append(thread, [id |-> response_id,
                                 in_reply_to |-> mention.previous_tweet_id])
    /\ mention' = [mention EXCEPT
                       !.posted = @ + 1,
                       !.previous_tweet_id = NextPrevious(@, response_id)]
    /\ UNCHANGED <<last_mention_id, cursor_file, platform, relay_pc, batch,
                   fetched, replied, batch_log, save_failed, written,
                   persisted>>
    /\ RelayFrame

\* process_and_reply raises (the engine, an image download or create_tweet
\* failed): the exception is logged and the loop is left by break.
MentionFails ==
    /\ relay_pc = "reply"
    /\ mention.posted < mention.total
    /\ batch_log' = Append(batch_log, [id |-> mention.id, result |-> "failed"])
    /\ batch' = <<>>
    /\ mention' = NoMention
    /\ thread' = <<>>
    /\ relay_pc' = "sleep"
    /\ UNCHANGED <<last_mention_id, cursor_file, platform, fetched, replied,
                   save_failed, written, persisted>>
    /\ RelayFrame

\* "if not self.last_mention_id or mention.id > self.last_mention_id"
AdvancesAlways(mention_id) == TRUE

Advances(mention_id) ==
    last_mention_id = NoCursor \/ mention_id > last_mention_id

\* process_and_reply returns: the cursor is advanced and saved when the
\* mention is newer than it, and the loop goes on.
MentionDone(save) ==
    /\ relay_pc = "reply"
    /\ mention.posted = mention.total
    /\ replied' = replied \cup {mention.id}
    /\ batch_log' = Append(batch_log, [id |-> mention.id, result |-> "ok"])
    /\ IF Advances(mention.id)
       THEN /\ last_mention_id' = mention.id
            /\ cursor_file' = SavedFile(mention.id, save)
            /\ save_failed' = (save_failed \/ save # "saved")
            /\ written' = Append(written, mention.id)
            /\ persisted' = IF save = "saved" THEN mention.id ELSE persisted
       ELSE UNCHANGED <<last_mention_id, cursor_file, save_failed, written,
                        persisted>>
    /\ batch' = Tail(batch)
    /\ mention' = NoMention
    /\ thread' = <<>>
    /\ relay_pc' = IF Tail(batch) = <<>> THEN "sleep" ELSE "batch"
    /\ UNCHANGED <<platform, fetched>>
    /\ RelayFrame

\* _load_last_mention_id when the file exists: "int(last_id) if last_id else
\* None".
load_last_mention_id(file) == IF file = NoCursor THEN NoCursor ELSE file

\* The process has died: what it held in memory is gone.
ProcessDown ==
    /\ relay_pc' = "down"
    /\ last_mention_id' = NoCursor
    /\ batch' = <<>>
    /\ mention' = NoMention
    /\ batch_log' = <<>>
    /\ save_failed' = FALSE
    /\ thread' = <<>>
    /\ written' = <<>>

\* The process is killed outside _save_last_mention_id.
Crash ==
    /\ relay_pc # "down"
    /\ ProcessDown
    /\ UNCHANGED <<cursor_file, platform, fetched, replied, persisted>>
    /\ RelayFrame

\* The process is killed inside _save_last_mention_id, after open(..., 'w')
\* has emptied the file and before the number written reaches it.
CrashInSave ==
    /\ relay_pc = "reply"
    /\ mention.posted = mention.total
    /\ Advances(mention.id)
    /\ replied' = replied \cup {mention.id}
    /\ cursor_file' = NoCursor
    /\ ProcessDown
    /\ UNCHANGED <<platform, fetched, persisted>>
    /\ RelayFrame

\* The process is started again: TwitterBot.__init__ loads the cursor.
Restart ==
    /\ relay_pc = "down"
    /\ last_mention_id' = load_last_mention_id(cursor_file)
    /\ relay_pc' = "sleep"
    /\ UNCHANGED <<cursor_file, platform, batch, mention, fetched, replied,
                   batch_log, save_failed, thread, written, persisted>>
    /\ RelayFrame

\* C4: between polling cycles, every fetched mention whose identifier is at
\* most the cursor has been fully processed; a fetched mention that has not
\* been is above the cursor and so is fetched again, whatever the order of a
\* batch.
C4_CursorCoversOnlyProcessed ==
    relay_pc = "sleep" =>
        \A m \in fetched : m <= last_mention_id => m \in replied

\* C5: after a batch in which exactly one item fails, and it is not the
\* first, the persisted cursor is the identifier of the item processed
\* immediately before the failing one (every save having succeeded).
C5_CursorIsItemBeforeFailure ==
    (/\ relay_pc = "sleep"
     /\ Len(batch_log) >= 2
     /\ batch_log[Len(batch_log)].result = "failed"
     /\ ~save_failed)
        => cursor_file = batch_log[Len(batch_log) - 1].id

\* C11: when a mention fails in the middle of a batch, check_mentions leaves
\* the rest of the batch unprocessed and returns to the polling loop, and the
\* failed mention is still newer than the cursor, so that the next polling
\* cycle fetches it and processes it again.
C11_FailedMentionIsFetchedAgain ==
    (/\ relay_pc = "sleep"
     /\ batch_log # <<>>
     /\ batch_log[Len(batch_log)].result = "failed")
        => /\ batch = <<>>
           /\ batch_log[Len(batch_log)].id \in NewSince(last_mention_id)

\* C14: the cursor file always holds a complete cursor, the one persisted
\* last, also when a save fails or the process dies in the middle of it; so a
\* process that is running, restarted or not, never works from a cursor lower
\* than the last one persisted, nor from none when one was persisted.
C14_FileHoldsPersistedCursor ==
    /\ cursor_file = persisted
    /\ relay_pc # "down" => last_mention_id >= persisted

\* C15: in a running relay the cursor last_mention_id never decreases,
\* whatever the order of the identifiers in a batch, and every value written
\* to the cursor file is greater than every value written before it and than
\* the value the file held when the process started.
C15_CursorNeverDecreases ==
    [][/\ last_mention_id' >= last_mention_id
       /\ written' # written =>
             /\ written' = Append(written, last_mention_id')
             /\ last_mention_id' > persisted
             /\ \A k \in 1..Len(written) : written[k] < last_mention_id']_vars

\* A batch was returned newest first and both mentions were answered: the
\* cursor was written once and stayed at the newer mention.
C15_Witness ==
    /\ Len(batch_log) >= 2
    /\ batch_log[1].result = "ok"
    /\ batch_log[2].result = "ok"
    /\ batch_log[1].id > batch_log[2].id
    /\ last_mention_id = batch_log[1].id
    /\ written # <<>>
    /\ written[Len(written)] = batch_log[1].id

\* C12: the first chunk posted for a question replies to the mention, and
\* every later chunk replies to the tweet posted immediately before it, so the
\* posts form one thread in the order they were made.
C12_RepliesFormOneThread ==
    relay_pc = "reply" =>
        /\ Len(thread) = mention.posted
        /\ \A k \in 1..Len(thread) :
              thread[k].in_reply_to =
                  IF k = 1 THEN mention.id ELSE thread[k - 1].id

\* Two chunks have been posted for one mention.
C12_Witness ==
    /\ relay_pc = "reply"
    /\ Len(thread) >= 2
    /\ thread[2].in_reply_to # mention.id

(***************************************************************************)
(* Specifications                                                          *)
(***************************************************************************)
NoAgent ==
    /\ surface = "guild"
    /\ now = 0
    /\ history = [u \in Users |-> <<>>]
    /\ task = [t \in Tasks |-> IdleTask]
    /\ sent = [t \in Tasks |-> <<>>]

NoRelay ==
    /\ cursor_file = NoCursor
    /\ last_mention_id = NoCursor
    /\ platform = {}
    /\ relay_pc = "sleep"
    /\ batch = <<>>
    /\ mention = NoMention
    /\ fetched = {}
    /\ replied = {}
    /\ batch_log = <<>>
    /\ save_failed = FALSE
    /\ thread = <<>>
    /\ written = <<>>
    /\ persisted = NoCursor

AgeIdle ==
    /\ minted_hours_ago = 0
    /\ utc_offset = 0
    /\ cat_age = NoAge
    /\ age_pc = "call"

NoSplit ==
    /\ text = <<>>
    /\ max_length = DefaultMaxLength
    /\ tweet_parts = <<>>
    /\ split_pc = "call"

InitSplit == SplitInit /\ QueryInit /\ NoAgent /\ NoRelay /\ AgeIdle
NextSplit == SplitIntoTweets
SpecSplit == InitSplit /\ [][NextSplit]_vars

InitQuery == QueryInit /\ NoSplit /\ NoAgent /\ NoRelay /\ AgeIdle
NextQuery ==
    \E stmt \in Statements, connect \in Outcomes, commit \in Outcomes :
        QueryDatabase(stmt, connect, commit)
SpecQuery == InitQuery /\ [][NextQuery]_vars

InitAgent == AgentInit /\ NoSplit /\ QueryInit /\ NoRelay /\ AgeIdle
NextAgent ==
    \/ \E t \in Tasks, u \in Users, empty \in BOOLEAN : StartQuestion(t, u, empty)
    \/ \E t \in Tasks : HelpSent(t)
    \/ \E t \in Tasks, shape \in Shapes : EngineReturns(t, shape)
    \/ \E t \in Tasks : EngineFails(t)
    \/ \E t \in Tasks : ReplySent(t)
    \/ \E t \in Tasks : ReplySendFails(t)
    \/ \E t \in Tasks : FallbackSent(t)
    \/ \E t \in Tasks : ErrorSent(t)
    \/ Tick
SpecAgent == InitAgent /\ [][NextAgent]_vars

InitRelay == RelayInit /\ NoSplit /\ QueryInit /\ NoAgent /\ AgeIdle
NextRelay ==
    \/ NewMention
    \/ \E ok \in BOOLEAN : CheckMentions(ok)
    \/ \E total \in 1..MaxChunks : StartMention(total)
    \/ \E response_id \in ReplyIds : PostChunk(response_id)
    \/ MentionFails
    \/ \E save \in SaveOutcomes : MentionDone(save)
SpecRelay == InitRelay /\ [][NextRelay]_vars

InitAge == AgeInit /\ NoSplit /\ QueryInit /\ NoAgent /\ NoRelay
NextAge == GetCatAge
SpecAge == InitAge /\ [][NextAge]_vars

\* process_question up to the engine call, on stored histories of every kind.
InitWindow == WindowInit /\ NoSplit /\ QueryInit /\ NoRelay /\ AgeIdle
NextWindow ==
    \E t \in Tasks, u \in Users, empty \in BOOLEAN : StartQuestion(t, u, empty)
SpecWindow == InitWindow /\ [][NextWindow]_vars

\* The relay with the process dying and being started again.
NextRestart ==
    \/ NewMention
    \/ \E ok \in BOOLEAN : CheckMentions(ok)
    \/ \E total \in 1..MaxChunks : StartMention(total)
    \/ \E response_id \in ReplyIds : PostChunk(response_id)
    \/ MentionFails
    \/ \E save \in SaveOutcomes : MentionDone(save)
    \/ Crash
    \/ CrashInSave
    \/ Restart
SpecRestart == InitRelay /\ [][NextRestart]_vars

====
